---- MODULE Spec2Model ----
(***************************************************************************)
(* A model of pointer_traps.c: ten pointer demonstrations of Embedded C.   *)
(* The state is a byte-addressed memory of typed objects (statics and the  *)
(* automatic objects of the running demonstration), the symbol table of    *)
(* the running function, the console, the value last returned to the       *)
(* caller, the sequence of demonstrations called so far and a log of every *)
(* access made through a pointer.  The program counter is <<function,      *)
(* source line>>.                                                          *)
(***************************************************************************)
EXTENDS Integers, Sequences, FiniteSets, TLC

VARIABLES ptrSize, pc, calls, hist, frame, mem, out, callStart, ret, accesses

vars == <<ptrSize, pc, calls, hist, frame, mem, out, callStart, ret, accesses>>

----------------------------------------------------------------------------
(* Bounds of the model *)

\* number of demonstration calls the external caller makes
MaxCalls == 3

----------------------------------------------------------------------------
(* Program constants and memory layout *)

NULL == 0
REG_ADDR == 1073741824
IntSize == 4
\* static storage
XAddr == 536870912
RegVarAddr == 536870920
\* code addresses of the two handlers
Handler1Addr == 134217984
Handler2Addr == 134218000
\* the region automatic objects live in
StackBase == 536875008
StackLimit == 536879104

PtrSizes == {4, 8}

----------------------------------------------------------------------------
(* Types and values *)

T(base, depth, qual) == [base |-> base, depth |-> depth, q |-> qual]

IntT == T("int", 0, "none")
IntPtr == T("int", 1, "none")
PtrToConstInt == T("int", 1, "const-data")
ConstPtrToInt == T("int", 1, "const-pointer")
VoidPtr == T("void", 1, "none")
FnPtr == T("fn", 1, "none")
RegPtr == T("uint32_t", 1, "volatile-data")

BaseSize(b) ==
  CASE b = "int" -> IntSize
    [] b = "uint32_t" -> 4

SizeOfType(t) == IF t.depth > 0 THEN ptrSize ELSE BaseSize(t.base)

Pointee(t) == T(t.base, t.depth - 1, "none")
PointerTo(t) == T(t.base, t.depth + 1, "none")
SameObjectType(t, u) == t.base = u.base /\ t.depth = u.depth

Val(t, v) == [ty |-> t, v |-> v, init |-> TRUE]
Indet(t, g) == [ty |-> t, v |-> g, init |-> FALSE]
NoRet == Indet(T("void", 0, "none"), 0)

\* what an indeterminate object may hold
GarbageInt == {0, -1}
GarbagePtr == {NULL, 3, XAddr, REG_ADDR, StackBase}
GarbageFn == {NULL, 3, Handler1Addr, Handler2Addr}

----------------------------------------------------------------------------
(* Automatic storage *)

SetMax(S) == CHOOSE m \in S : \A k \in S : k <= m
AlignUp(a, al) == ((a + al - 1) \div al) * al

SizeofObj(o) == SizeOfType(o.ty) * o.n

FrameTop(f) ==
  IF DOMAIN f = {} THEN StackBase
  ELSE SetMax({f[k].addr + SizeofObj(f[k]) : k \in DOMAIN f})

Alloc(f, name, t, n) ==
  f @@ (name :> [addr |-> AlignUp(FrameTop(f), SizeOfType(t)), ty |-> t, n |-> n])

ElemAddr(o, i) == o.addr + i * SizeOfType(o.ty)
ObjAddrs(o) == {ElemAddr(o, i) : i \in 0..(o.n - 1)}

Bind(m, o, vals) ==
  [a \in DOMAIN m \cup ObjAddrs(o) |->
     IF a \in ObjAddrs(o) THEN vals[((a - o.addr) \div SizeOfType(o.ty)) + 1]
     ELSE m[a]]

IsStackAddr(a) == a >= StackBase /\ a < StackLimit

Release(m) == [a \in {b \in DOMAIN m : ~IsStackAddr(b)} |-> m[a]]

\* T name[n] = vals;
Declare(name, t, n, vals) ==
  LET f2 == Alloc(frame, name, t, n) IN
  /\ frame' = f2
  /\ mem' = Bind(mem, f2[name], vals)

\* the value of a scalar local, and an assignment to it
Load(name) == mem[frame[name].addr]
Assign(name, val) == mem' = [mem EXCEPT ![frame[name].addr] = val]

AddrOf(name) == Val(PointerTo(frame[name].ty), frame[name].addr)
Decay(name) == Val(PointerTo(frame[name].ty), ElemAddr(frame[name], 0))

----------------------------------------------------------------------------
(* Accesses through pointers *)

ValidPtr(m, p) ==
  /\ p.init
  /\ p.v \in DOMAIN m
  /\ SameObjectType(m[p.v].ty, Pointee(p.ty))

Access(op, via, p) ==
  [op |-> op, via |-> via, addr |-> p.v, valid |-> ValidPtr(mem, p)]

\* *p as an rvalue: an invalid access yields anything
DerefSet(m, p) ==
  IF p.ty.base = "void" /\ p.ty.depth = 1 THEN {}
  ELSE IF ValidPtr(m, p) THEN {m[p.v].v}
  ELSE GarbageInt

\* *p = val: an invalid write may land anywhere or nowhere
StoreSet(m, p, val) ==
  IF ValidPtr(m, p) THEN {[m EXCEPT ![p.v] = val]}
  ELSE {m} \cup {[m EXCEPT ![b] = val] : b \in DOMAIN m}

\* pointer arithmetic counted in bytes
PtrAdd_Bytes(p, k) == [p EXCEPT !.v = p.v + k]

PtrAdd(p, k) == [p EXCEPT !.v = p.v + k * SizeOfType(Pointee(p.ty))]

\* a conversion to void* that keeps the type and loses the address
ToVoidPtr_Null(p) == [p EXCEPT !.ty = VoidPtr, !.v = NULL]

ToVoidPtr(p) == [p EXCEPT !.ty = VoidPtr]
CastTo(t, p) == [p EXCEPT !.ty = t]

----------------------------------------------------------------------------
(* The file's objects of static storage duration *)

Statics ==
  (XAddr :> Val(IntT, 100)) @@ (RegVarAddr :> Val(RegPtr, REG_ADDR))

Idle == <<"caller", 0>>

VoidDemos ==
  {"uninitialized_pointer_demo", "null_pointer_demo", "const_pointer_demo",
   "pointer_arithmetic_demo", "void_pointer_demo", "function_pointer_demo",
   "array_pointer_demo", "double_pointer_demo"}

Demos == VoidDemos \cup {"dangling_pointer_demo"}

\* the line of a function's first statement and of its closing brace
FirstLine(d) ==
  CASE d = "uninitialized_pointer_demo" -> 28
    [] d = "null_pointer_demo" -> 54
    [] d = "dangling_pointer_demo" -> 82
    [] d = "const_pointer_demo" -> 104
    [] d = "pointer_arithmetic_demo" -> 136
    [] d = "void_pointer_demo" -> 162
    [] d = "function_pointer_demo" -> 195
    [] d = "array_pointer_demo" -> 221
    [] d = "double_pointer_demo" -> 250

EndLine(d) ==
  CASE d = "uninitialized_pointer_demo" -> 30
    [] d = "null_pointer_demo" -> 60
    [] d = "dangling_pointer_demo" -> 84
    [] d = "const_pointer_demo" -> 115
    [] d = "pointer_arithmetic_demo" -> 140
    [] d = "void_pointer_demo" -> 167
    [] d = "function_pointer_demo" -> 202
    [] d = "array_pointer_demo" -> 226
    [] d = "double_pointer_demo" -> 252

At(d, line) == pc = <<d, line>>
Goto(d, line) == pc' = <<d, line>>

Init ==
  /\ ptrSize \in PtrSizes
  /\ pc = Idle
  /\ calls = 0
  /\ hist = << >>
  /\ frame = << >>
  /\ mem = Statics
  /\ out = << >>
  /\ callStart = 0
  /\ ret = NoRet
  /\ accesses = {}

\* an external caller runs one of the demonstrations
Call ==
  /\ pc = Idle
  /\ calls < MaxCalls
  /\ \E d \in Demos : Goto(d, FirstLine(d)) /\ hist' = Append(hist, d)
  /\ calls' = calls + 1
  /\ callStart' = Len(out)
  /\ UNCHANGED <<ptrSize, frame, mem, out, ret, accesses>>

\* the closing brace of a void function ends the lifetime of its locals
ReturnVoid ==
  /\ \E d \in VoidDemos : At(d, EndLine(d))
  /\ pc' = Idle
  /\ frame' = << >>
  /\ mem' = Release(mem)
  /\ UNCHANGED <<ptrSize, hist, calls, out, callStart, ret, accesses>>

----------------------------------------------------------------------------
(* 1. uninitialized_pointer_demo *)

\* int *ptr;
uninit_28 ==
  /\ At("uninitialized_pointer_demo", 28)
  /\ \E g \in GarbagePtr : Declare("ptr", IntPtr, 1, <<Indet(IntPtr, g)>>)
  /\ Goto("uninitialized_pointer_demo", 30)
  /\ UNCHANGED <<ptrSize, hist, calls, out, callStart, ret, accesses>>

----------------------------------------------------------------------------
(* 2. null_pointer_demo *)

\* int *ptr = NULL;
null_54 ==
  /\ At("null_pointer_demo", 54)
  /\ Declare("ptr", IntPtr, 1, <<Val(IntPtr, NULL)>>)
  /\ Goto("null_pointer_demo", 56)
  /\ UNCHANGED <<ptrSize, hist, calls, out, callStart, ret, accesses>>

\* the guard inverted: if (ptr == NULL) { *ptr = 10; }
null_56_Inverted ==
  /\ At("null_pointer_demo", 56)
  /\ IF Load("ptr").v = NULL
     THEN /\ \E m2 \in StoreSet(mem, Load("ptr"), Val(IntT, 10)) : mem' = m2
          /\ accesses' = accesses \cup {Access("write", "ptr", Load("ptr"))}
     ELSE UNCHANGED <<mem, accesses>>
  /\ Goto("null_pointer_demo", 60)
  /\ UNCHANGED <<ptrSize, hist, calls, frame, out, callStart, ret>>

\* if (ptr != NULL) { *ptr = 10; }
null_56 ==
  /\ At("null_pointer_demo", 56)
  /\ IF Load("ptr").v /= NULL
     THEN /\ \E m2 \in StoreSet(mem, Load("ptr"), Val(IntT, 10)) : mem' = m2
          /\ accesses' = accesses \cup {Access("write", "ptr", Load("ptr"))}
     ELSE UNCHANGED <<mem, accesses>>
  /\ Goto("null_pointer_demo", 60)
  /\ UNCHANGED <<ptrSize, hist, calls, frame, out, callStart, ret>>

----------------------------------------------------------------------------
(* 3. dangling_pointer_demo *)

\* int local = 10;
dangling_82 ==
  /\ At("dangling_pointer_demo", 82)
  /\ Declare("local", IntT, 1, <<Val(IntT, 10)>>)
  /\ Goto("dangling_pointer_demo", 83)
  /\ UNCHANGED <<ptrSize, hist, calls, out, callStart, ret, accesses>>

\* return &local;  the lifetime of local ends here, so the value the caller
\* receives is indeterminate: builds hand back the stale address or NULL
dangling_83 ==
  /\ At("dangling_pointer_demo", 83)
  /\ ret' \in {AddrOf("local"), Val(IntPtr, NULL)}
  /\ pc' = Idle
  /\ frame' = << >>
  /\ mem' = Release(mem)
  /\ UNCHANGED <<ptrSize, hist, calls, out, callStart, accesses>>

----------------------------------------------------------------------------
(* 4. const_pointer_demo *)

\* int a = 10;
const_104 ==
  /\ At("const_pointer_demo", 104)
  /\ Declare("a", IntT, 1, <<Val(IntT, 10)>>)
  /\ Goto("const_pointer_demo", 105)
  /\ UNCHANGED <<ptrSize, hist, calls, out, callStart, ret, accesses>>

\* int b = 20;
const_105 ==
  /\ At("const_pointer_demo", 105)
  /\ Declare("b", IntT, 1, <<Val(IntT, 20)>>)
  /\ Goto("const_pointer_demo", 107)
  /\ UNCHANGED <<ptrSize, hist, calls, out, callStart, ret, accesses>>

\* const int *p1 = &a;
const_107 ==
  /\ At("const_pointer_demo", 107)
  /\ Declare("p1", PtrToConstInt, 1, <<CastTo(PtrToConstInt, AddrOf("a"))>>)
  /\ Goto("const_pointer_demo", 108)
  /\ UNCHANGED <<ptrSize, hist, calls, out, callStart, ret, accesses>>

\* int *const p2 = &a;
const_108 ==
  /\ At("const_pointer_demo", 108)
  /\ Declare("p2", ConstPtrToInt, 1, <<CastTo(ConstPtrToInt, AddrOf("a"))>>)
  /\ Goto("const_pointer_demo", 111)
  /\ UNCHANGED <<ptrSize, hist, calls, out, callStart, ret, accesses>>

\* p1 = &b;
const_111 ==
  /\ At("const_pointer_demo", 111)
  /\ Assign("p1", CastTo(PtrToConstInt, AddrOf("b")))
  /\ Goto("const_pointer_demo", 113)
  /\ UNCHANGED <<ptrSize, hist, calls, frame, out, callStart, ret, accesses>>

\* the write made through p1 instead of p2
const_113_ViaP1 ==
  /\ At("const_pointer_demo", 113)
  /\ \E m2 \in StoreSet(mem, Load("p1"), Val(IntT, 15)) : mem' = m2
  /\ accesses' = accesses \cup {Access("write", "p1", Load("p1"))}
  /\ Goto("const_pointer_demo", 115)
  /\ UNCHANGED <<ptrSize, hist, calls, frame, out, callStart, ret>>

\* *p2 = 15;
const_113 ==
  /\ At("const_pointer_demo", 113)
  /\ \E m2 \in StoreSet(mem, Load("p2"), Val(IntT, 15)) : mem' = m2
  /\ accesses' = accesses \cup {Access("write", "p2", Load("p2"))}
  /\ Goto("const_pointer_demo", 115)
  /\ UNCHANGED <<ptrSize, hist, calls, frame, out, callStart, ret>>

----------------------------------------------------------------------------
(* 5. pointer_arithmetic_demo *)

\* printf("%d\n", e);
PrintInt(o, v) == Append(o, ToString(v))

\* int arr[3] = {10, 20, 30};
arith_136 ==
  /\ At("pointer_arithmetic_demo", 136)
  /\ Declare("arr", IntT, 3, <<Val(IntT, 10), Val(IntT, 20), Val(IntT, 30)>>)
  /\ Goto("pointer_arithmetic_demo", 137)
  /\ UNCHANGED <<ptrSize, hist, calls, out, callStart, ret, accesses>>

\* int *p = arr;
arith_137 ==
  /\ At("pointer_arithmetic_demo", 137)
  /\ Declare("p", IntPtr, 1, <<Decay("arr")>>)
  /\ Goto("pointer_arithmetic_demo", 139)
  /\ UNCHANGED <<ptrSize, hist, calls, out, callStart, ret, accesses>>

\* printf("%d\n", *(p + 1));
arith_139 ==
  /\ At("pointer_arithmetic_demo", 139)
  /\ LET q == PtrAdd(Load("p"), 1) IN
       /\ \E v \in DerefSet(mem, q) : out' = PrintInt(out, v)
       /\ accesses' = accesses \cup {Access("read", "p", q)}
  /\ Goto("pointer_arithmetic_demo", 140)
  /\ UNCHANGED <<ptrSize, hist, calls, frame, mem, callStart, ret>>

----------------------------------------------------------------------------
(* 6. void_pointer_demo *)

\* int a = 10;
void_162 ==
  /\ At("void_pointer_demo", 162)
  /\ Declare("a", IntT, 1, <<Val(IntT, 10)>>)
  /\ Goto("void_pointer_demo", 163)
  /\ UNCHANGED <<ptrSize, hist, calls, out, callStart, ret, accesses>>

\* void *vp = &a;
void_163 ==
  /\ At("void_pointer_demo", 163)
  /\ Declare("vp", VoidPtr, 1, <<ToVoidPtr(AddrOf("a"))>>)
  /\ Goto("void_pointer_demo", 166)
  /\ UNCHANGED <<ptrSize, hist, calls, out, callStart, ret, accesses>>

\* printf("%d\n", *(int *)vp);
void_166 ==
  /\ At("void_pointer_demo", 166)
  /\ LET q == CastTo(IntPtr, Load("vp")) IN
       /\ \E v \in DerefSet(mem, q) : out' = PrintInt(out, v)
       /\ accesses' = accesses \cup {Access("read", "vp", q)}
  /\ Goto("void_pointer_demo", 167)
  /\ UNCHANGED <<ptrSize, hist, calls, frame, mem, callStart, ret>>

----------------------------------------------------------------------------
(* 7. function_pointer_demo *)

handler1(o) == Append(o, "Handler 1")
handler2(o) == Append(o, "Handler 2")

\* f(): a call through anything but the address of a function goes anywhere
InvokeSet(f, o) ==
  IF f.init /\ f.v = Handler1Addr THEN {handler1(o)}
  ELSE IF f.init /\ f.v = Handler2Addr THEN {handler2(o)}
  ELSE {o, handler1(o), handler2(o)}

FnAccess(via, f) ==
  [op |-> "call", via |-> via, addr |-> f.v,
   valid |-> f.init /\ f.v \in {Handler1Addr, Handler2Addr}]

\* fp();
CallThroughFp ==
  /\ \E o \in InvokeSet(Load("fp"), out) : out' = o
  /\ accesses' = accesses \cup {FnAccess("fp", Load("fp"))}

\* void (*fp)(void);
fn_195 ==
  /\ At("function_pointer_demo", 195)
  /\ \E g \in GarbageFn : Declare("fp", FnPtr, 1, <<Indet(FnPtr, g)>>)
  /\ Goto("function_pointer_demo", 197)
  /\ UNCHANGED <<ptrSize, hist, calls, out, callStart, ret, accesses>>

\* fp = handler1;
fn_197 ==
  /\ At("function_pointer_demo", 197)
  /\ Assign("fp", Val(FnPtr, Handler1Addr))
  /\ Goto("function_pointer_demo", 198)
  /\ UNCHANGED <<ptrSize, hist, calls, frame, out, callStart, ret, accesses>>

\* fp();
fn_198 ==
  /\ At("function_pointer_demo", 198)
  /\ CallThroughFp
  /\ Goto("function_pointer_demo", 200)
  /\ UNCHANGED <<ptrSize, hist, calls, frame, mem, callStart, ret>>

\* the second assignment left out
fn_200_Skipped ==
  /\ At("function_pointer_demo", 200)
  /\ Goto("function_pointer_demo", 201)
  /\ UNCHANGED <<ptrSize, hist, calls, frame, mem, out, callStart, ret, accesses>>

\* fp = handler2;
fn_200 ==
  /\ At("function_pointer_demo", 200)
  /\ Assign("fp", Val(FnPtr, Handler2Addr))
  /\ Goto("function_pointer_demo", 201)
  /\ UNCHANGED <<ptrSize, hist, calls, frame, out, callStart, ret, accesses>>

\* fp();
fn_201 ==
  /\ At("function_pointer_demo", 201)
  /\ CallThroughFp
  /\ Goto("function_pointer_demo", 202)
  /\ UNCHANGED <<ptrSize, hist, calls, frame, mem, callStart, ret>>

----------------------------------------------------------------------------
(* 8. array_pointer_demo *)

\* the contents of an array of n elements declared without an initializer
IndetArrays(t, n) == {[i \in 1..n |-> Indet(t, g[i])] : g \in [1..n -> GarbageInt]}

\* sizeof that lets the array decay first: the size of a pointer
Sizeof_Decayed(name) == SizeOfType(PointerTo(frame[name].ty))

\* sizeof applied to a declared name
Sizeof(name) == SizeofObj(frame[name])

\* printf("%lu\n", sizeof e);  on the platforms of PtrSizes (ILP32, LP64)
\* unsigned long is as wide as size_t, so the size itself is printed
PrintSize(o, sz) == Append(o, ToString(sz))

\* int arr[5];
array_221 ==
  /\ At("array_pointer_demo", 221)
  /\ \E vals \in IndetArrays(IntT, 5) : Declare("arr", IntT, 5, vals)
  /\ Goto("array_pointer_demo", 222)
  /\ UNCHANGED <<ptrSize, hist, calls, out, callStart, ret, accesses>>

\* int *p = arr;
array_222 ==
  /\ At("array_pointer_demo", 222)
  /\ Declare("p", PointerTo(frame["arr"].ty), 1, <<Decay("arr")>>)
  /\ Goto("array_pointer_demo", 224)
  /\ UNCHANGED <<ptrSize, hist, calls, out, callStart, ret, accesses>>

\* printf("%lu\n", sizeof(arr));
array_224 ==
  /\ At("array_pointer_demo", 224)
  /\ out' = PrintSize(out, Sizeof("arr"))
  /\ Goto("array_pointer_demo", 225)
  /\ UNCHANGED <<ptrSize, hist, calls, frame, mem, callStart, ret, accesses>>

\* printf("%lu\n", sizeof(p));
array_225 ==
  /\ At("array_pointer_demo", 225)
  /\ out' = PrintSize(out, Sizeof("p"))
  /\ Goto("array_pointer_demo", 226)
  /\ UNCHANGED <<ptrSize, hist, calls, frame, mem, callStart, ret, accesses>>

----------------------------------------------------------------------------
(* 9. double_pointer_demo *)

\* the helper assigning its own parameter (pp = &x): the caller sees nothing
update_pointer_ByValue(m, pp) == {m}

\* the helper redirecting the caller and also counting in x
update_pointer_Counting(m, pp) ==
  {[m2 EXCEPT ![XAddr] = Val(IntT, m2[XAddr].v + 1)] :
     m2 \in StoreSet(m, pp, Val(IntPtr, XAddr))}

\* void update_pointer(int **pp) { static int x = 100; *pp = &x; }
\* the memories the call may leave
update_pointer(m, pp) == StoreSet(m, pp, Val(IntPtr, XAddr))

\* int *p = NULL;
double_250 ==
  /\ At("double_pointer_demo", 250)
  /\ Declare("p", IntPtr, 1, <<Val(IntPtr, NULL)>>)
  /\ Goto("double_pointer_demo", 251)
  /\ UNCHANGED <<ptrSize, hist, calls, out, callStart, ret, accesses>>

\* update_pointer(&p);
double_251 ==
  /\ At("double_pointer_demo", 251)
  /\ \E m2 \in update_pointer(mem, AddrOf("p")) : mem' = m2
  /\ accesses' = accesses \cup {Access("write", "pp", AddrOf("p"))}
  /\ Goto("double_pointer_demo", 252)
  /\ UNCHANGED <<ptrSize, hist, calls, frame, out, callStart, ret>>

----------------------------------------------------------------------------
(* The program: any sequence of calls of the demonstrations *)

Next ==
  \/ Call
  \/ ReturnVoid
  \/ uninit_28
  \/ null_54
  \/ null_56
  \/ dangling_82
  \/ dangling_83
  \/ const_104
  \/ const_105
  \/ const_107
  \/ const_108
  \/ const_111
  \/ const_113
  \/ arith_136
  \/ arith_137
  \/ arith_139
  \/ void_162
  \/ void_163
  \/ void_166
  \/ fn_195
  \/ fn_197
  \/ fn_198
  \/ fn_200
  \/ fn_201
  \/ array_221
  \/ array_222
  \/ array_224
  \/ array_225
  \/ double_250
  \/ double_251

Spec == Init /\ [][Next]_vars

----------------------------------------------------------------------------
(* Properties *)

\* what the running (or last) call has written to the console
CallOut == SubSeq(out, callStart + 1, Len(out))

InFn(d, lines) == pc[1] = d /\ pc[2] \in lines

\* C1: at the end of array_pointer_demo the first line printed is the size of
\* the full array, element size times element count (20 for int arr[5]), the
\* second is the platform pointer size, and, the array being longer than one
\* element, the two sizes differ on every platform (pointers of 4 or 8 bytes).
C1_ArrayAndPointerSizes ==
  /\ (InFn("array_pointer_demo", {222, 224, 225, 226}) =>
        frame["arr"].ty = IntT /\ frame["arr"].n = 5)
  /\ (At("array_pointer_demo", 226) =>
        /\ Len(CallOut) = 2
        /\ CallOut[1] = ToString(BaseSize(frame["arr"].ty.base) * frame["arr"].n)
        /\ CallOut[1] = "20"
        /\ CallOut[2] = ToString(ptrSize)
        /\ (frame["arr"].n > 1 => CallOut[1] /= CallOut[2]))

\* C1 witness: int arr[5] on a platform of 8-byte pointers printed 20 and 8
C1_Witness ==
  /\ At("array_pointer_demo", 226)
  /\ frame["arr"].ty = IntT
  /\ frame["arr"].n = 5
  /\ ptrSize = 8
  /\ CallOut = <<"20", "8">>

\* C2 as stated: no executed statement of a demonstration performs a hazard:
\* every access through a pointer is through a determinate pointer to a live
\* object of its type, and no demonstration hands its caller the address of
\* an automatic object whose lifetime has ended.
C2_NoHazardExecuted ==
  /\ \A a \in accesses : a.valid
  /\ (pc = Idle => ~(ret.ty.depth > 0 /\ IsStackAddr(ret.v)))

\* C3: at the end of double_pointer_demo, on every call, p (NULL before the
\* helper ran) is determinate, non-null and the address of the helper's
\* static x, which holds 100.
C3_CallerPointerRedirected ==
  /\ (At("double_pointer_demo", 251) => Load("p") = Val(IntPtr, NULL))
  /\ (At("double_pointer_demo", 252) =>
        /\ Load("p").init
        /\ Load("p").v /= NULL
        /\ Load("p").v = XAddr
        /\ mem[XAddr] = Val(IntT, 100))

\* C3 witness: the end of a second consecutive run of double_pointer_demo
C3_Witness ==
  /\ At("double_pointer_demo", 252)
  /\ hist = <<"double_pointer_demo", "double_pointer_demo">>
  /\ Load("p").v = XAddr

\* C4: every call through fp is through an assigned fp holding a handler's
\* address, the first call prints "Handler 1" and the second "Handler 2",
\* so the demonstration prints exactly these two lines in this order.
C4_HandlersInOrder ==
  /\ \A a \in accesses : a.op = "call" => a.valid
  /\ (At("function_pointer_demo", 198) => Load("fp") = Val(FnPtr, Handler1Addr))
  /\ (At("function_pointer_demo", 201) => Load("fp") = Val(FnPtr, Handler2Addr))
  /\ (InFn("function_pointer_demo", {195, 197, 198}) => CallOut = << >>)
  /\ (InFn("function_pointer_demo", {200, 201}) => CallOut = <<"Handler 1">>)
  /\ (At("function_pointer_demo", 202) => CallOut = <<"Handler 1", "Handler 2">>)

\* C4 witness: the demonstration ended having printed both lines
C4_Witness ==
  /\ At("function_pointer_demo", 202)
  /\ CallOut = <<"Handler 1", "Handler 2">>
  /\ [op |-> "call", via |-> "fp", addr |-> Handler2Addr, valid |-> TRUE] \in accesses

\* C5: pointer_arithmetic_demo prints 20, and the one read it makes through
\* p is of the element at index 1, one element size past the array's start
\* and inside the array.
C5_SecondElement ==
  At("pointer_arithmetic_demo", 140) =>
    /\ CallOut = <<"20">>
    /\ \E a \in accesses : a.via = "p"
    /\ \A a \in accesses : a.via = "p" =>
         /\ a.valid
         /\ a.addr = frame["arr"].addr + IntSize
         /\ a.addr = ElemAddr(frame["arr"], 1)
         /\ a.addr \in ObjAddrs(frame["arr"])
    /\ mem[ElemAddr(frame["arr"], 1)] = Val(IntT, 20)

\* C5 witness: the demonstration ended having read arr[1]
C5_Witness ==
  /\ At("pointer_arithmetic_demo", 140)
  /\ CallOut = <<"20">>
  /\ Load("p").v = frame["arr"].addr

\* C6: in const_pointer_demo p1 refers to b after its reassignment, nothing
\* is ever accessed through p1, p2 refers to a from its declaration to the
\* end, and at the end a is 15 and b is 20.
C6_ConstPointerFrame ==
  /\ \A a \in accesses : a.via /= "p1"
  /\ (At("const_pointer_demo", 111) => Load("p1").v = frame["a"].addr)
  /\ (InFn("const_pointer_demo", {113, 115}) => Load("p1").v = frame["b"].addr)
  /\ (InFn("const_pointer_demo", {111, 113, 115}) => Load("p2").v = frame["a"].addr)
  /\ (At("const_pointer_demo", 113) =>
        Load("a") = Val(IntT, 10) /\ Load("b") = Val(IntT, 20))
  /\ (At("const_pointer_demo", 115) =>
        Load("a") = Val(IntT, 15) /\ Load("b") = Val(IntT, 20))

\* C6 witness: the demonstration ended with a written through p2
C6_Witness ==
  /\ At("const_pointer_demo", 115)
  /\ Load("a").v = 15
  /\ Load("p1").v = frame["b"].addr
  /\ \E a \in accesses : a.via = "p2" /\ a.op = "write" /\ a.addr = frame["a"].addr

\* C7: no access is ever made through a pointer equal to NULL, and in
\* null_pointer_demo ptr is NULL throughout and nothing is written through it.
C7_NullNeverDereferenced ==
  /\ \A a \in accesses : a.addr /= NULL /\ a.via /= "ptr"
  /\ (InFn("null_pointer_demo", {56, 60}) =>
        Load("ptr") = Val(IntPtr, NULL))

\* C7 witness: the demonstration passed its guard with ptr NULL
C7_Witness ==
  /\ At("null_pointer_demo", 60)
  /\ Load("ptr").v = NULL

\* C8 as stated: after its declaration in uninitialized_pointer_demo, ptr
\* holds NULL and never an indeterminate address.
C8_PtrHoldsNull ==
  At("uninitialized_pointer_demo", 30) =>
    Load("ptr").init /\ Load("ptr").v = NULL

\* the console output of a demonstration run alone
AloneOut(d) ==
  CASE d = "pointer_arithmetic_demo" -> <<"20">>
    [] d = "void_pointer_demo" -> <<"10">>
    [] d = "function_pointer_demo" -> <<"Handler 1", "Handler 2">>
    [] d = "array_pointer_demo" -> <<ToString(IntSize * 5), ToString(ptrSize)>>
    [] OTHER -> << >>

\* C9: over any sequence of calls the global reg stays REG_ADDR, nothing is
\* accessed at REG_ADDR or through reg, the static x stays 100, and every
\* completed call has printed what the demonstration prints when run alone.
C9_NoSharedMutableState ==
  /\ mem[RegVarAddr] = Val(RegPtr, REG_ADDR)
  /\ mem[XAddr] = Val(IntT, 100)
  /\ \A a \in accesses : a.addr /= REG_ADDR /\ a.addr /= RegVarAddr /\ a.via /= "reg"
  /\ (pc = Idle /\ calls > 0 => CallOut = AloneOut(hist[Len(hist)]))

\* C9 witness: array_pointer_demo completed a second time, after a run of
\* double_pointer_demo
C9_Witness ==
  /\ pc = Idle
  /\ hist = <<"array_pointer_demo", "double_pointer_demo", "array_pointer_demo">>
  /\ CallOut = <<"20", ToString(ptrSize)>>
  /\ Len(out) = 4

\* C10: in void_pointer_demo the stored void* converted back to int* is
\* the pointer &a, the one read made through vp is a valid read of a as an
\* int, and the demonstration prints 10.
C10_VoidRoundTrip ==
  /\ (InFn("void_pointer_demo", {166, 167}) =>
        /\ Load("vp").ty = VoidPtr
        /\ CastTo(IntPtr, Load("vp")) = AddrOf("a"))
  /\ (At("void_pointer_demo", 167) =>
        /\ CallOut = <<"10">>
        /\ \E a \in accesses : a.via = "vp"
        /\ \A a \in accesses : a.via = "vp" =>
             a.op = "read" /\ a.valid /\ a.addr = frame["a"].addr)

\* C10 witness: the demonstration ended having printed a through vp
C10_Witness ==
  /\ At("void_pointer_demo", 167)
  /\ CallOut = <<"10">>
  /\ Load("vp").ty = VoidPtr

====
